---- MODULE Spec2Model ----
(***************************************************************************)
(* River: the library index (Library.reload, putSongs, getSongs) and the   *)
(* on-demand transcode cache (Encoder.Encode, getStream) of river.go.      *)
(* Every HTTP request runs on its own goroutine (a handler of Handlers);   *)
(* the main goroutine runs NewLibrary and then listens.                    *)
(***************************************************************************)
EXTENDS Integers, Sequences, FiniteSets, TLC

\* ------------------------------------------------------------------ bounds
\* Total number of HTTP requests the handlers start in one run.
MaxRequests == 2
\* Total number of stream requests in one run of the transcode cache alone.
MaxStreams == 3
\* Total number of changes the outside world makes to the library directory.
MaxFsOps == 1
\* Total number of requests in one run in which requests come one at a time.
MaxSeqRequests == 2
\* Total number of requests over the runs of a process that is restarted.
MaxRunRequests == 1
\* How many times the process is stopped and started again.
MaxRestarts == 1
\* Total number of listing and reload requests in one run of the index alone,
\* and of changes the outside world makes to the library directory in it.
MaxIndexRequests == 2
MaxIndexFsOps == 2
\* Total number of requests, with or without credentials, in one run.
MaxAuthRequests == 2
\* Total number of listing and reload requests, and of directory changes, in
\* one run in which files are also replaced by directories.
MaxDirRequests == 2
MaxDirFsOps == 1
\* Total number of concurrent requests, and of directory changes, in one run
\* in which the requests are to return.
MaxLiveRequests == 2
MaxLiveFsOps == 1
\* Total number of stream requests over the runs of a process that is stopped
\* and started again.
MaxCrashRequests == 2
\* Total number of requests, and of directory changes, in one run in which
\* the directory changes at any time.
MaxProbeRequests == 1
MaxProbeFsOps == 1
\* Length of the tag strings valInt is studied on.
MaxValLen == 3
\* Number of tags of the format object, and of streams, of a probe output.
MaxTags == 2
MaxTagStreams == 2
\* Greatest length genID is called with.
MaxIDLength == 2

\* ------------------------------------------------------------- the universe
Main == "main"
Handlers == {"h1", "h2"}
Procs == Handlers \cup {Main}
NoThread == "none"

\* Strings that the code case-folds or compares are sequences of byte values.
\* Library-relative paths: "A", "a" (they differ only in letter case).
Paths == {<<65>>, <<97>>}
\* Identifiers genID can return (two of the 8-letter strings).
IDs == {"aaaaaaaa", "bbbbbbbb"}
\* The keys of afmts.
Exts == {".opus", ".mp3"}
\* Extensions a stream URL can carry: the supported ones and one other.
ReqExts == Exts \cup {".wav"}

\* What is at a path of the library directory: nothing, a regular file or a
\* directory.
NoFile == [exists |-> FALSE]
Directory(m) == [exists |-> TRUE, dir |-> TRUE, mtime |-> m]

\* The library flag of every run, and another directory.
Root == "lib"
OtherRoot == "old"

\* What the probe tool does for a file's content: whether it exits 0 having
\* printed JSON, the probe_score of the format section (-1: the section has no
\* numeric probe_score), the format_name of the format section, whether a
\* stream has codec_type "audio", and the tag values.
Contents ==
    { [exit |-> 0, score |-> 100, format |-> "mp3", audio |-> TRUE,
       artist |-> <<66>>, album |-> <<97>>, disc |-> 1, track |-> 1, title |-> <<116>>],
      [exit |-> 0, score |-> 25, format |-> "flac", audio |-> TRUE,
       artist |-> <<98>>, album |-> <<97>>, disc |-> 0, track |-> 2, title |-> <<116>>],
      [exit |-> 0, score |-> 100, format |-> "image2", audio |-> FALSE,
       artist |-> <<>>, album |-> <<>>, disc |-> 0, track |-> 0, title |-> <<>>],
      [exit |-> 0, score |-> 24, format |-> "mp3", audio |-> TRUE,
       artist |-> <<98>>, album |-> <<97>>, disc |-> 0, track |-> 2, title |-> <<116>>],
      [exit |-> 0, score |-> -1, format |-> "flac", audio |-> TRUE,
       artist |-> <<98>>, album |-> <<97>>, disc |-> 0, track |-> 2, title |-> <<116>>],
      [exit |-> 1, score |-> -1, format |-> "", audio |-> FALSE,
       artist |-> <<>>, album |-> <<>>, disc |-> 0, track |-> 0, title |-> <<>>] }

\* A library file as the initial state has it: an MP3 file.
InitialContent ==
    [exit |-> 0, score |-> 100, format |-> "mp3", audio |-> TRUE,
     artist |-> <<66>>, album |-> <<97>>, disc |-> 1, track |-> 1, title |-> <<116>>]

\* afmts[ext].Fmt: the format name the transcoding tool is given for an
\* extension.
AfmtFmt(ext) == IF ext = ".opus" THEN "ogg" ELSE "mp3"

VARIABLES
    files,        \* the library directory: path -> NoFile, Directory or [exists, dir, mtime, content]
    clock,        \* number of directory changes so far; stamps modification times
    streams,      \* the artifact directory: <<id, ext>> -> "absent" | "partial" | "complete"
    SongsByPath,  \* Library.SongsByPath
    SongsByID,    \* Library.SongsByID
    sorted,       \* Library.sorted
    rwWriter,     \* Library.mutex: the goroutine holding it exclusively
    rwReaders,    \* Library.mutex: the goroutines holding it shared
    encMutex,     \* Encoder.mutex: its holder
    encoding,     \* Encoder.encoding: artifact path -> holder of its mutex
    pc,           \* each goroutine's position
    req,          \* the request a handler is serving
    walk,         \* the paths a reload's walk has still to visit
    dest,         \* Encode's dest of a stream request
    toolErr,      \* whether the transcoding tool exited non-zero in this request
    toolRuns,     \* how many times this request has invoked the transcoding tool
    resp,         \* the response of the request: status and body
    nreq,         \* number of requests started so far
    sawAbsent,    \* whether no finished artifact was at dest when getStream computed it
    began,        \* the clock when this goroutine's reload began
    published,    \* the index as the last reload left it when it ended
    pubClock,     \* the clock when the last reload that has ended began
    pubVer,       \* how many reloads have completed
    startVer,     \* how many reloads had completed when the request started
    lastFailed,   \* artifact paths whose latest tool run exited non-zero
    db,           \* the snapshot file at marshalPath
    restarts,     \* how many times the process has been stopped and started again
    written,      \* the mappings the last completed reload handed to marshal
    probeFailed,  \* the paths whose probe has failed in the reload now running
    lookPath,     \* the executable names exec.LookPath finds on this machine
    made,         \* artifact path -> how many mutexes Encode has made for it
    mutex,        \* Encode's mutex of a stream request: which of the path's mutexes
    probed,       \* the probe output newSong has decoded and not yet built a Song from
    call,         \* a call of one of the functions on tags and ids: its name and arguments
    ret           \* what that call has computed, and whether it has returned

vars == <<files, clock, streams, SongsByPath, SongsByID, sorted, rwWriter,
          rwReaders, encMutex, encoding, pc, req, walk, dest, toolErr,
          toolRuns, resp, nreq, sawAbsent, began, published, pubClock,
          pubVer, startVer, lastFailed, db, restarts, written, probeFailed,
          lookPath, made, mutex,
          probed, call, ret>>

\* What no step of the server changes: the directory and the clock but by the
\* outside world, the installed executables and the call under study.
callVars == <<call, ret>>
fsVars == <<files, clock, lookPath, callVars>>
indexVars == <<SongsByPath, SongsByID, sorted>>
rwVars == <<rwWriter, rwReaders>>
encVars == <<encMutex, encoding, made, mutex>>
reqVars == <<req, dest, toolErr, toolRuns, resp, nreq, startVer, sawAbsent>>
ghostVars == <<published, pubClock, pubVer, lastFailed>>
reloadVars == <<walk, began, probed>>
runVars == <<db, restarts, written, probeFailed>>

\* ------------------------------------------------------------------ strings
\* strings.ToLower on ASCII bytes.
ToLower(s) == [i \in DOMAIN s |-> IF s[i] >= 65 /\ s[i] <= 90 THEN s[i] + 32 ELSE s[i]]

\* Go's < on strings: bytewise lexicographic.
StrLess(s, t) ==
    \E i \in 1..Len(t) :
        /\ i <= Len(s) + 1
        /\ \A j \in 1..(i - 1) : s[j] = t[j]
        /\ (i = Len(s) + 1 \/ s[i] < t[i])

compareFold(s, t) ==
    [eq |-> ToLower(s) = ToLower(t), less |-> StrLess(ToLower(s), ToLower(t))]

\* ByTags.Less on two Songs.
Less(a, b) ==
    IF ~compareFold(a.Artist, b.Artist).eq THEN compareFold(a.Artist, b.Artist).less
    ELSE IF ~compareFold(a.Album, b.Album).eq THEN compareFold(a.Album, b.Album).less
    ELSE IF a.Disc # b.Disc THEN a.Disc < b.Disc
    ELSE IF a.Track # b.Track THEN a.Track < b.Track
    ELSE IF ~compareFold(a.Title, b.Title).eq THEN compareFold(a.Title, b.Title).less
    ELSE compareFold(a.Path, b.Path).less

\* ------------------------------------------------------------- small helpers
Range(f) == {f[x] : x \in DOMAIN f}

\* delete(m, k) on a Go map.
MapDelete(m, ks) == [k \in DOMAIN m \ ks |-> m[k]]

\* m[k] = v on a Go map.
MapPut(m, k, v) == [x \in DOMAIN m \cup {k} |-> IF x = k THEN v ELSE m[x]]

EmptyMap == [x \in {} |-> x]

\* The sequences that hold each element of S exactly once.
Perms(S) ==
    {q \in [1..Cardinality(S) -> S] : \A i, j \in 1..Cardinality(S) : i # j => q[i] # q[j]}

\* What sort.Sort(ByTags(...)) can leave, whatever order the map iteration
\* appended the Songs in: every arrangement in which no element is Less than
\* one before it.
SortResults(S) ==
    {q \in Perms(S) : \A i, j \in 1..Len(q) : i < j => ~Less(q[j], q[i])}

\* streamPath: the artifact path of a Song and an extension.
streamPath(s, ext) == <<s.ID, ext>>

\* The paths in the artifact directory that a stream URL can name.
Dests == IDs \X ReqExts

\* deleteStream: removes the Song's artifact in every format of afmts.
deleteStreamOfNone(st, s) == st

deleteStream(st, s) ==
    [d \in Dests |-> IF d[1] = s.ID /\ d[2] \in Exts THEN "absent" ELSE st[d]]

\* deleteStream applied to each Song of a set.
deleteStreams(st, ss) ==
    [d \in Dests |-> IF d[2] \in Exts /\ \E s \in ss : d[1] = s.ID THEN "absent" ELSE st[d]]

\* ---------------------------------------------------------------- newSong
\* The probe score below which newSong rejects a file.
MinProbeScore == 25

\* newSong gets past Decode and Wait: the tool printed JSON and exited 0.
ProbeRan(c) == c.exit = 0

\* The type assertion t.Format["probe_score"].(float64) panics when the value
\* is not a number.
ProbePanics(c) == ProbeRan(c) /\ c.score \notin Nat

\* newSong's checks on the probe output, with the score check left out.
ProbeOKWhateverScore(c) == ProbeRan(c) /\ c.score \in Nat /\ c.audio

\* newSong's checks on the probe output.
ProbeOK(c) == ProbeRan(c) /\ c.score \in Nat /\ c.score >= MinProbeScore /\ c.audio

\* The Song newSong builds for path p, given the id.
SongOf(p, id, f) ==
    [ID |-> id, Path |-> p, Time |-> f.mtime,
     Artist |-> f.content.artist, Album |-> f.content.album,
     Disc |-> f.content.disc, Track |-> f.content.track,
     Title |-> f.content.title]

\* The ids newSong can give the Song of path p: the id the path already has,
\* otherwise whatever genID returns.
NewSongIDs(p) ==
    IF p \in DOMAIN SongsByPath THEN {SongsByPath[p].ID} ELSE IDs

\* newSong is not between its probe and its Stat.
NoProbe == [probed |-> FALSE]

\* ------------------------------------------------------------ the snapshot
\* The file at marshalPath: missing, of length 0, or JSON that decodes into
\* the Library's Path, SongsByPath and SongsByID.
NoSnapshot == [state |-> "absent"]
EmptySnapshot == [state |-> "empty"]
Snapshot(path, byPath, byID) ==
    [state |-> "json", Path |-> path, SongsByPath |-> byPath, SongsByID |-> byID]

\* A Song of a snapshot: the Track of "A" as a reload of the initial
\* directory builds it, and a Track of "A" in the other directory.
SnapshotSong ==
    [ID |-> "bbbbbbbb", Path |-> <<65>>, Time |-> 0, Artist |-> <<66>>,
     Album |-> <<97>>, Disc |-> 1, Track |-> 1, Title |-> <<116>>]
OtherRootSong ==
    [ID |-> "bbbbbbbb", Path |-> <<65>>, Time |-> 0, Artist |-> <<79>>,
     Album |-> <<97>>, Disc |-> 1, Track |-> 1, Title |-> <<116>>]

\* The snapshot files a first run can find: none, one of this library and
\* one of the other directory.
Snapshots ==
    { NoSnapshot,
      Snapshot(Root, MapPut(EmptyMap, <<65>>, SnapshotSong),
               MapPut(EmptyMap, "bbbbbbbb", SnapshotSong)),
      Snapshot(OtherRoot, MapPut(EmptyMap, <<65>>, OtherRootSong),
               MapPut(EmptyMap, "bbbbbbbb", OtherRootSong)) }

\* What marshal leaves at marshalPath. OpenFile is given O_CREATE|O_TRUNC and
\* no write access: a missing file is created empty, an existing one is
\* truncated or (the effect of O_TRUNC without write access being unspecified)
\* left as it is, and the Encoder's write fails.
MarshalLeaves(d) == IF d.state = "json" THEN {EmptySnapshot, d} ELSE {EmptySnapshot}

\* marshal returning nil although the write failed.
MarshalNeverFails == FALSE

\* marshal returns the error of the failed write.
MarshalFails == TRUE

\* The artifact directory with no file in it.
NoArtifacts == [d \in Dests |-> "absent"]

\* The artifact directories a first run can find beside a snapshot file:
\* empty, or with the MP3 artifact an earlier run encoded for the Track of the
\* snapshot.
SnapshotArtifacts(d) ==
    IF d.state = "json"
    THEN {NoArtifacts, [NoArtifacts EXCEPT ![<<"bbbbbbbb", ".mp3">>] = "complete"]}
    ELSE {NoArtifacts}

\* ------------------------------------------------------- tags and ids
\* strings.ToUpper on ASCII bytes.
ToUpper(s) == [i \in DOMAIN s |-> IF s[i] >= 97 /\ s[i] <= 122 THEN s[i] - 32 ELSE s[i]]

\* A container of the probe output (the format object or a stream object):
\* without a "tags" object, or with one that maps keys to strings.
NoTags == [hasTags |-> FALSE]
Cont(m) == [hasTags |-> TRUE, tags |-> m]

\* A lookup that found nothing: the zero string and ok false.
NotFound == [val |-> <<>>, ok |-> FALSE]

\* valRaw: the value of the container's tag whose key is the lower-cased
\* key, otherwise of the one whose key is the upper-cased key.
valRaw(key, cont) ==
    IF ~cont.hasTags THEN NotFound
    ELSE IF ToLower(key) \in DOMAIN cont.tags
         THEN [val |-> cont.tags[ToLower(key)], ok |-> TRUE]
    ELSE IF ToUpper(key) \in DOMAIN cont.tags
         THEN [val |-> cont.tags[ToUpper(key)], ok |-> TRUE]
    ELSE NotFound

\* tags.val: valRaw on the format object, then on each stream in order.
tagsVal(t, key) ==
    IF valRaw(key, t.Format).ok THEN valRaw(key, t.Format)
    ELSE LET found == {i \in 1..Len(t.Streams) : valRaw(key, t.Streams[i]).ok}
         IN  IF found = {} THEN NotFound
             ELSE valRaw(key, t.Streams[CHOOSE i \in found : \A j \in found : i <= j])

\* strings.Split(valString, "/")[0]: what is before the first '/'.
SplitFirst(valString) ==
    LET cut == {i \in 1..Len(valString) : valString[i] = 47}
    IN  IF cut = {} THEN valString
        ELSE SubSeq(valString, 1, (CHOOSE i \in cut : \A j \in cut : i <= j) - 1)

\* The number a string of decimal digits denotes.
RECURSIVE DecVal(_)
DecVal(s) == IF s = <<>> THEN 0 ELSE DecVal(SubSeq(s, 1, Len(s) - 1)) * 10 + (s[Len(s)] - 48)

\* strconv.Atoi: an optional sign and one or more decimal digits; anything
\* else is a syntax error, with the value 0.
Atoi(s) ==
    LET signed == s # <<>> /\ s[1] \in {43, 45}
        digits == IF signed THEN Tail(s) ELSE s
    IN  IF digits # <<>> /\ \A i \in 1..Len(digits) : digits[i] >= 48 /\ digits[i] <= 57
        THEN [val |-> IF signed /\ s[1] = 45 THEN 0 - DecVal(digits) ELSE DecVal(digits),
              err |-> FALSE]
        ELSE [val |-> 0, err |-> TRUE]

\* valInt: Atoi of what is before the first '/', its error dropped.
valInt(valString) == Atoi(SplitFirst(valString)).val

\* The keys newSong looks the disc number up by.
KeyDisc == <<100, 105, 115, 99>>
KeyDiscNumber == KeyDisc \o <<110, 117, 109, 98, 101, 114>>

\* newSong's disc number: the "disc" tag, or if there is none the
\* "discnumber" tag, through valInt (the track number is computed the same
\* way from "track" and "tracknumber").
discNumber(t) ==
    valInt(IF tagsVal(t, KeyDisc).ok THEN tagsVal(t, KeyDisc).val
           ELSE tagsVal(t, KeyDiscNumber).val)

\* The bytes genID draws from.
idLeastByte == 97
idGreatestByte == 122

\* rand.Int(rand.Reader, max): a uniform random value in [0, max).
RandInt(max) == 0..(max - 1)

\* The tag strings valInt is studied on: every string of at most MaxValLen of
\* the bytes '0', '1', '2', '/', '-', '+' and 'A'.
ValChars == {48, 49, 50, 47, 45, 43, 65}
ValStrings == UNION {[1..n -> ValChars] : n \in 0..MaxValLen}

\* The probe outputs the lookups are studied on: the keys "disc", "DISC",
\* "Disc" and "discnumber"; a format object with at most MaxTags tags whose
\* values are "2" or "A"; at most MaxTagStreams streams, each without tags or
\* with one tag whose value is "3" or "4".
TagKeys == {KeyDisc, ToUpper(KeyDisc), <<68, 105, 115, 99>>, KeyDiscNumber}
TagMaps(vals, n) ==
    UNION {[K -> vals] : K \in {T \in SUBSET TagKeys : Cardinality(T) <= n}}
FormatConts == {NoTags} \cup {Cont(m) : m \in TagMaps({<<50>>, <<65>>}, MaxTags)}
StreamConts == {NoTags} \cup {Cont(m) : m \in TagMaps({<<51>>, <<52>>}, 1) \ {EmptyMap}}
ProbeOutputs ==
    {[Format |-> f, Streams |-> ss] :
        f \in FormatConts, ss \in UNION {[1..n -> StreamConts] : n \in 0..MaxTagStreams}}

\* No call is studied.
NoCall == [fn |-> "none"]
NoRet == [returned |-> FALSE]
NoCalls == call = NoCall /\ ret = NoRet

\* ------------------------------------------------------------------ initial
\* The process memory and the directories when the process first starts.
InitMemory ==
    /\ files \in [Paths -> {NoFile, [exists |-> TRUE, dir |-> FALSE, mtime |-> 0, content |-> InitialContent]}]
    /\ clock = 0
    /\ SongsByPath = EmptyMap
    /\ SongsByID = EmptyMap
    /\ sorted = <<>>
    /\ rwWriter = NoThread
    /\ rwReaders = {}
    /\ encMutex = NoThread
    /\ encoding = EmptyMap
    /\ made = [d \in Dests |-> 0]
    /\ mutex = [t \in Handlers |-> 0]
    /\ pc = [t \in Procs |-> IF t = Main THEN "boot" ELSE "idle"]
    /\ req = [t \in Handlers |-> [kind |-> "none"]]
    /\ walk = [t \in Procs |-> <<>>]
    /\ dest = [t \in Handlers |-> <<>>]
    /\ toolErr = [t \in Handlers |-> FALSE]
    /\ toolRuns = [t \in Handlers |-> 0]
    /\ resp = [t \in Handlers |-> [status |-> 0]]
    /\ nreq = 0
    /\ sawAbsent = [t \in Handlers |-> FALSE]
    /\ began = [t \in Procs |-> 0]
    /\ probed = [t \in Procs |-> NoProbe]
    /\ published = <<EmptyMap, EmptyMap, <<>>>>
    /\ pubClock = 0
    /\ pubVer = 0
    /\ startVer = [t \in Handlers |-> 0]
    /\ lastFailed = {}
    /\ restarts = 0
    /\ written = <<>>
    /\ probeFailed = {}

\* The executable names chooseCmd is called with: the probe tool's and the
\* transcoding tool's, each a primary and a fallback name.
ProbeCmds == <<"ffprobe", "avprobe">>
ConvCmds == <<"ffmpeg", "avconv">>
Tools == {"ffprobe", "avprobe", "ffmpeg", "avconv"}

\* A first run on a machine with no snapshot file and every tool installed.
Init == InitMemory /\ db = NoSnapshot /\ streams = NoArtifacts /\ lookPath = Tools /\ NoCalls

\* A first run that may find a snapshot file.
InitSnapshot ==
    /\ InitMemory
    /\ db \in Snapshots
    /\ streams \in SnapshotArtifacts(db)
    /\ lookPath = Tools
    /\ NoCalls

\* A first run on a machine with any of the tools installed.
InitTools ==
    InitMemory /\ db = NoSnapshot /\ streams = NoArtifacts /\ lookPath \in SUBSET Tools
        /\ NoCalls

\* ------------------------------------------------- the library directory
\* The outside world writes a file (creating it or changing its content).
WriteFile(p, c) ==
    /\ clock' = clock + 1
    /\ files' = [files EXCEPT ![p] = [exists |-> TRUE, dir |-> FALSE, mtime |-> clock + 1,
                                       content |-> c]]
    /\ UNCHANGED <<lookPath, callVars, runVars, streams, indexVars, rwVars, encVars, pc, reloadVars, reqVars, ghostVars>>

\* The outside world removes a file.
RemoveFile(p) ==
    /\ files[p].exists
    /\ clock' = clock + 1
    /\ files' = [files EXCEPT ![p] = NoFile]
    /\ UNCHANGED <<lookPath, callVars, runVars, streams, indexVars, rwVars, encVars, pc, reloadVars, reqVars, ghostVars>>

\* The outside world replaces a file by a directory of the same name.
ReplaceByDir(p) ==
    /\ files[p].exists
    /\ ~files[p].dir
    /\ clock' = clock + 1
    /\ files' = [files EXCEPT ![p] = Directory(clock + 1)]
    /\ UNCHANGED <<lookPath, callVars, runVars, streams, indexVars, rwVars, encVars, pc, reloadVars, reqVars, ghostVars>>

\* ------------------------------------------------------------- sync.Mutex
\* Lock on a sync.Mutex returns only when nobody holds it.
MutexCanLockAlways(holder) == TRUE

MutexCanLock(holder) == holder = NoThread

\* The body of a response: a text, or the JSON encoding of a list of Tracks.
Text(s) == [text |-> s, list |-> <<>>]
Listing(l) == [text |-> "json", list |-> l]

\* A deferred Unlock that never runs.
UnlockForgotten(holder, t) == holder

\* Unlock on a sync.Mutex, or on the sync.RWMutex held exclusively, by the
\* goroutine that may hold it.
Unlock(holder, t) == IF holder = t THEN NoThread ELSE holder

\* Lock on the sync.RWMutex returns only when nobody holds it, shared or not.
RWCanLockDespiteReaders == rwWriter = NoThread

RWCanLock == rwWriter = NoThread /\ rwReaders = {}

\* RLock on the sync.RWMutex returns only when nobody holds it exclusively.
RWCanRLockAlways == TRUE

RWCanRLock == rwWriter = NoThread

\* ------------------------------------------------------------------ reload
\* The paths of the directory in the order filepath.Walk visits them.
WalkOrder(S) ==
    CHOOSE q \in Perms(S) : \A i, j \in 1..Len(q) : i < j => StrLess(q[i], q[j])

\* Whether the walk's callback calls newSong for path p: the path is not a
\* directory, and it is not in SongsByPath or the file's modification time is
\* after the Song's Time.
NeedsProbe(p) ==
    /\ files[p].exists
    /\ ~files[p].dir
    /\ p \in DOMAIN SongsByPath => files[p].mtime > SongsByPath[p].Time

\* The walk's callback on the next path.
ReloadVisit(t) ==
    /\ pc[t] = "walk"
    /\ walk[t] # <<>>
    /\ probed[t] = NoProbe
    /\ LET p == Head(walk[t])
           f == files[p]
       IN  /\ ~(NeedsProbe(p) /\ ProbePanics(f.content))
           /\ walk' = [walk EXCEPT ![t] = Tail(walk[t])]
           /\ IF NeedsProbe(p) /\ ProbeOK(f.content)
              THEN \E id \in NewSongIDs(p) :
                     LET s == SongOf(p, id, f)
                     IN  /\ SongsByPath' = MapPut(SongsByPath, p, s)
                         /\ SongsByID' = MapPut(SongsByID, s.ID, s)
                         /\ streams' = deleteStream(streams, s)
              ELSE UNCHANGED <<SongsByPath, SongsByID, streams>>
           /\ probeFailed' = IF NeedsProbe(p) /\ ~ProbeOK(f.content)
                             THEN probeFailed \cup {p} ELSE probeFailed
    /\ UNCHANGED <<db, restarts, written, fsVars, sorted, rwVars, encVars, pc, began,
                   probed, reqVars, ghostVars>>

\* newSong up to its checks on the probe output, on a path whose probe
\* output passes them: the probe tool has read the file and exited, and
\* newSong has yet to open the file for its modification time.
NewSongProbe(t) ==
    /\ pc[t] = "walk"
    /\ walk[t] # <<>>
    /\ probed[t] = NoProbe
    /\ NeedsProbe(Head(walk[t]))
    /\ ProbeOK(files[Head(walk[t])].content)
    /\ probed' = [probed EXCEPT ![t] = files[Head(walk[t])].content]
    /\ UNCHANGED <<runVars, fsVars, streams, indexVars, rwVars, encVars, pc, walk, began,
                   reqVars, ghostVars>>

\* The rest of newSong and of the walk's callback: the id, the file's
\* ModTime as it is now, the tags of the probe output decoded before, the
\* Song's artifacts deleted and the Song stored; an Open that fails makes
\* newSong return the error, which the callback drops.
NewSongStat(t) ==
    /\ pc[t] = "walk"
    /\ probed[t] # NoProbe
    /\ LET p == Head(walk[t])
       IN  /\ IF files[p].exists
              THEN \E id \in NewSongIDs(p) :
                     LET s == SongOf(p, id, [mtime |-> files[p].mtime, content |-> probed[t]])
                     IN  /\ SongsByPath' = MapPut(SongsByPath, p, s)
                         /\ SongsByID' = MapPut(SongsByID, s.ID, s)
                         /\ streams' = deleteStream(streams, s)
              ELSE UNCHANGED <<SongsByPath, SongsByID, streams>>
           /\ probeFailed' = IF files[p].exists THEN probeFailed ELSE probeFailed \cup {p}
    /\ walk' = [walk EXCEPT ![t] = Tail(walk[t])]
    /\ probed' = [probed EXCEPT ![t] = NoProbe]
    /\ UNCHANGED <<db, restarts, written, fsVars, sorted, rwVars, encVars, pc, began,
                   reqVars, ghostVars>>

\* The walk's callback on a path whose probe output has no numeric
\* probe_score: newSong panics. At startup the panic ends the process; in a
\* request the deferred Unlock of putSongs runs and the server recovers the
\* panic, closing the connection, so the reload stops where it is.
ReloadPanic(t) ==
    /\ pc[t] = "walk"
    /\ walk[t] # <<>>
    /\ probed[t] = NoProbe
    /\ NeedsProbe(Head(walk[t]))
    /\ ProbePanics(files[Head(walk[t])].content)
    /\ walk' = [walk EXCEPT ![t] = <<>>]
    /\ began' = [began EXCEPT ![t] = 0]
    /\ probeFailed' = {}
    /\ published' = <<SongsByPath, SongsByID, sorted>>
    /\ pubClock' = began[t]
    /\ rwWriter' = Unlock(rwWriter, t)
    /\ pc' = [pc EXCEPT ![t] = IF t = Main THEN "crashed" ELSE "done"]
    /\ resp' = IF t = Main THEN resp
               ELSE [resp EXCEPT ![t] = [status |-> 0, body |-> Text("closed")]]
    /\ UNCHANGED <<db, restarts, written, fsVars, streams, indexVars, rwReaders, encVars,
                   req, dest, toolErr, toolRuns, nreq, startVer, sawAbsent, pubVer,
                   lastFailed, probed>>

\* The Songs the loop after the walk drops: those whose file no longer exists.
Gone == {SongsByPath[p] : p \in {q \in DOMAIN SongsByPath : ~files[q].exists}}

\* The rest of reload after the walk: the entries whose file no longer exists
\* are dropped with their artifacts, l.sorted is rebuilt from SongsByPath and
\* sorted, marshal is called, and reload returns its error (to NewLibrary,
\* which ignores it, or to putSongs, which answers 500 on an error, whose
\* deferred Unlock runs and from which ServeHTTP falls through to getSongs).
ReloadFinish(t) ==
    /\ pc[t] = "walk"
    /\ walk[t] = <<>>
    /\ LET byPath == MapDelete(SongsByPath, {s.Path : s \in Gone})
           byID == MapDelete(SongsByID, {s.ID : s \in Gone})
       IN  /\ SongsByPath' = byPath
           /\ SongsByID' = byID
           /\ streams' = deleteStreams(streams, Gone)
           /\ written' = <<byPath, byID>>
           /\ \E q \in SortResults(Range(byPath)) :
                 /\ sorted' = q
                 /\ published' = <<byPath, byID, q>>
    /\ db' \in MarshalLeaves(db)
    /\ resp' = IF t # Main /\ MarshalFails
               THEN [resp EXCEPT ![t] = [status |-> 500, body |-> Text("error")]]
               ELSE resp
    /\ probeFailed' = {}
    /\ pubClock' = began[t]
    /\ pubVer' = pubVer + 1
    /\ began' = [began EXCEPT ![t] = 0]
    /\ rwWriter' = Unlock(rwWriter, t)
    /\ pc' = [pc EXCEPT ![t] = IF t = Main THEN "listen" ELSE "getSongs"]
    /\ UNCHANGED <<restarts, fsVars, rwReaders, encVars, walk, probed, req, dest, toolErr,
                   toolRuns, nreq, startVer, sawAbsent, lastFailed>>

\* Whether NewLibrary finds the decoded Path to differ from the library flag.
PathNeverDiffers(path) == FALSE

PathDiffers(path) == path # Root

\* chooseCmd taking the first name without looking for it.
chooseCmdUnchecked(names) == names[1]

\* chooseCmd: the first name if LookPath finds it, otherwise the second if
\* LookPath finds that, otherwise an error ("" here).
chooseCmd(names) ==
    IF names[1] \in lookPath THEN names[1]
    ELSE IF names[2] \in lookPath THEN names[2]
    ELSE ""

\* NewLibrary: chooseCmd picks the probe tool and the transcoding tool, an
\* error of either making NewLibrary return it and main exit; then the
\* Library (a file of length 0 makes Decode fail, NewLibrary return the error
\* and main exit); the mappings are made empty when the Path of the snapshot
\* is not the library flag, as it is not when no snapshot was read; and the
\* first reload runs before the server listens, its filepath.Walk reading the
\* directory.
NewLibrary ==
    /\ pc[Main] = "boot"
    /\ IF chooseCmd(ProbeCmds) = "" \/ chooseCmd(ConvCmds) = "" \/ db.state = "empty"
       THEN /\ pc' = [pc EXCEPT ![Main] = "exit"]
            /\ UNCHANGED <<indexVars, reloadVars>>
       ELSE /\ IF db.state = "json" /\ ~PathDiffers(db.Path)
               THEN /\ SongsByPath' = db.SongsByPath
                    /\ SongsByID' = db.SongsByID
               ELSE /\ SongsByPath' = EmptyMap
                    /\ SongsByID' = EmptyMap
            /\ sorted' = <<>>
            /\ walk' = [walk EXCEPT ![Main] = WalkOrder({p \in Paths : files[p].exists})]
            /\ began' = [began EXCEPT ![Main] = clock]
            /\ pc' = [pc EXCEPT ![Main] = "walk"]
    /\ UNCHANGED <<runVars, fsVars, streams, rwVars, encVars, reqVars, ghostVars, probed>>

\* The process is stopped and started again with the same library flag: its
\* memory is lost, the library directory, the artifacts and the snapshot file
\* stay.
Restart ==
    /\ pc[Main] # "boot"
    /\ restarts' = restarts + 1
    /\ SongsByPath' = EmptyMap
    /\ SongsByID' = EmptyMap
    /\ sorted' = <<>>
    /\ rwWriter' = NoThread
    /\ rwReaders' = {}
    /\ encMutex' = NoThread
    /\ encoding' = EmptyMap
    /\ made' = [d \in Dests |-> 0]
    /\ mutex' = [t \in Handlers |-> 0]
    /\ pc' = [t \in Procs |-> IF t = Main THEN "boot" ELSE "idle"]
    /\ req' = [t \in Handlers |-> [kind |-> "none"]]
    /\ walk' = [t \in Procs |-> <<>>]
    /\ dest' = [t \in Handlers |-> <<>>]
    /\ toolErr' = [t \in Handlers |-> FALSE]
    /\ toolRuns' = [t \in Handlers |-> 0]
    /\ resp' = [t \in Handlers |-> [status |-> 0]]
    /\ sawAbsent' = [t \in Handlers |-> FALSE]
    /\ began' = [t \in Procs |-> 0]
    /\ probed' = [t \in Procs |-> NoProbe]
    /\ startVer' = [t \in Handlers |-> 0]
    /\ probeFailed' = {}
    /\ UNCHANGED <<fsVars, streams, db, written, nreq, published, pubClock, pubVer,
                   lastFailed>>

\* ---------------------------------------------------------------- requests
\* The requests that carry basic-auth credentials whose password compares
\* with the hash: GET /songs, PUT /songs and GET /songs/<id><ext>.
Requests ==
    {[kind |-> "list", auth |-> TRUE], [kind |-> "put", auth |-> TRUE]}
        \cup {[kind |-> "stream", auth |-> TRUE, id |-> i, ext |-> e] : i \in IDs, e \in ReqExts}

StreamRequests == {r \in Requests : r.kind = "stream"}

\* The same requests without such credentials, and OPTIONS /songs.
AnonymousRequests ==
    {[kind |-> "list", auth |-> FALSE], [kind |-> "put", auth |-> FALSE],
     [kind |-> "options", auth |-> FALSE]}
        \cup {[kind |-> "stream", auth |-> FALSE, id |-> i, ext |-> ".mp3"] : i \in IDs}

\* Goroutines have no identity: a new request runs on the first idle handler.
FirstIdle(t) == pc[t] = "idle" /\ (t = "h2" => pc["h1"] # "idle")

\* ServeHTTP checks the credentials of every request.
ChecksAuthAlways(r) == TRUE

\* ServeHTTP checks the credentials unless the path matches streamRE or the
\* method is OPTIONS.
ChecksAuth(r) == r.kind # "stream" /\ r.kind # "options"

\* The server accepts a request and ServeHTTP dispatches it on a goroutine of
\* its own: a request whose credentials are checked and found wanting is
\* answered 401, OPTIONS /songs is answered by optionsSongs, and the others
\* go to putSongs, getSongs or getStream.
ServeHTTP(t, r) ==
    /\ pc[Main] = "listen"
    /\ FirstIdle(t)
    /\ nreq' = nreq + 1
    /\ req' = [req EXCEPT ![t] = r]
    /\ pc' = [pc EXCEPT ![t] = CASE ChecksAuth(r) /\ ~r.auth -> "done"
                                 [] r.kind = "options" -> "done"
                                 [] r.kind = "list" -> "getSongs"
                                 [] r.kind = "put" -> "putSongs"
                                 [] OTHER -> "getStream"]
    /\ resp' = [resp EXCEPT ![t] = CASE ChecksAuth(r) /\ ~r.auth ->
                                         [status |-> 401, body |-> Text("error")]
                                     [] r.kind = "options" ->
                                         [status |-> 200, body |-> Text("options")]
                                     [] OTHER -> resp[t]]
    /\ startVer' = [startVer EXCEPT ![t] = pubVer]
    /\ UNCHANGED <<runVars, fsVars, streams, indexVars, rwVars, encVars, reloadVars, dest, toolErr,
                   toolRuns, sawAbsent, ghostVars>>

\* The handler goroutine ends: the response has been sent and its locals die.
Return(t) ==
    /\ pc[t] = "done"
    /\ pc' = [pc EXCEPT ![t] = "idle"]
    /\ req' = [req EXCEPT ![t] = [kind |-> "none"]]
    /\ dest' = [dest EXCEPT ![t] = <<>>]
    /\ toolErr' = [toolErr EXCEPT ![t] = FALSE]
    /\ toolRuns' = [toolRuns EXCEPT ![t] = 0]
    /\ sawAbsent' = [sawAbsent EXCEPT ![t] = FALSE]
    /\ resp' = [resp EXCEPT ![t] = [status |-> 0]]
    /\ startVer' = [startVer EXCEPT ![t] = 0]
    /\ UNCHANGED <<runVars, fsVars, streams, indexVars, rwVars, encVars, reloadVars, nreq, ghostVars>>

\* putSongs takes the index lock exclusively and calls reload, whose
\* filepath.Walk reads the directory.
PutSongsLock(t) ==
    /\ pc[t] = "putSongs"
    /\ RWCanLock
    /\ rwWriter' = t
    /\ walk' = [walk EXCEPT ![t] = WalkOrder({p \in Paths : files[p].exists})]
    /\ began' = [began EXCEPT ![t] = clock]
    /\ pc' = [pc EXCEPT ![t] = "walk"]
    /\ UNCHANGED <<runVars, fsVars, streams, indexVars, rwReaders, encVars, reqVars, ghostVars,
                   probed>>

\* getSongs takes the index lock shared.
GetSongsRLock(t) ==
    /\ pc[t] = "getSongs"
    /\ RWCanRLock
    /\ rwReaders' = rwReaders \cup {t}
    /\ pc' = [pc EXCEPT ![t] = "listing"]
    /\ UNCHANGED <<runVars, fsVars, streams, indexVars, rwWriter, encVars, reloadVars, reqVars, ghostVars>>

\* getSongs writes l.sorted as the response and returns (the deferred
\* RUnlock); a status putSongs has already sent stays.
GetSongsWrite(t) ==
    /\ pc[t] = "listing"
    /\ resp' = [resp EXCEPT ![t] = [status |-> IF resp[t].status = 0 THEN 200
                                               ELSE resp[t].status,
                                    body |-> Listing(sorted)]]
    /\ rwReaders' = rwReaders \ {t}
    /\ pc' = [pc EXCEPT ![t] = "done"]
    /\ UNCHANGED <<runVars, fsVars, streams, indexVars, rwWriter, encVars, reloadVars, req, dest,
                   toolErr, toolRuns, nreq, startVer, sawAbsent, ghostVars>>

\* getStream takes the index lock shared.
GetStreamRLock(t) ==
    /\ pc[t] = "getStream"
    /\ RWCanRLock
    /\ rwReaders' = rwReaders \cup {t}
    /\ pc' = [pc EXCEPT ![t] = "lookup"]
    /\ UNCHANGED <<runVars, fsVars, streams, indexVars, rwWriter, encVars, reloadVars, reqVars, ghostVars>>

\* afmts[ext] finding a format for whatever extension.
HasAfmtAlways(ext) == TRUE

\* afmts[ext]: whether the extension is a key of afmts.
HasAfmt(ext) == ext \in Exts

\* getStream looks the id up in SongsByID and the extension up in afmts; a
\* miss of either is answered 404, otherwise Encode is called.
GetStreamLookup(t) ==
    /\ pc[t] = "lookup"
    /\ IF req[t].id \in DOMAIN SongsByID /\ HasAfmt(req[t].ext)
       THEN /\ dest' = [dest EXCEPT ![t] = streamPath(SongsByID[req[t].id], req[t].ext)]
            /\ sawAbsent' = [sawAbsent EXCEPT
                   ![t] = streams[streamPath(SongsByID[req[t].id], req[t].ext)] # "complete"]
            /\ pc' = [pc EXCEPT ![t] = "encLock"]
            /\ UNCHANGED <<runVars, resp, rwReaders>>
       ELSE /\ resp' = [resp EXCEPT ![t] = [status |-> 404, body |-> Text("error")]]
            /\ rwReaders' = rwReaders \ {t}
            /\ pc' = [pc EXCEPT ![t] = "done"]
            /\ UNCHANGED <<runVars, dest, sawAbsent>>
    /\ UNCHANGED <<runVars, fsVars, streams, indexVars, rwWriter, encVars, reloadVars, req,
                   toolErr, toolRuns, nreq, startVer, ghostVars>>

\* ------------------------------------------------------------------ Encode
\* Encode locks e.mutex and looks dest up in e.encoding: the mutex found
\* there (0: none).
EncodeLock(t) ==
    /\ pc[t] = "encLock"
    /\ MutexCanLock(encMutex)
    /\ encMutex' = t
    /\ mutex' = [mutex EXCEPT ![t] = IF dest[t] \in DOMAIN encoding THEN made[dest[t]] ELSE 0]
    /\ pc' = [pc EXCEPT ![t] = "encPathLock"]
    /\ UNCHANGED <<runVars, fsVars, streams, indexVars, rwVars, encoding, made, reloadVars,
                   reqVars, ghostVars>>

\* os.Stat(dest) finding a file, of whatever content.
StatNeverExists(d) == FALSE

StatExists(d) == streams[d] # "absent"

\* Encode makes a mutex and stores it in e.encoding if it found none, locks
\* the mutex it has and stats dest: a file there ends the encode, otherwise
\* the tool is started.
EncodePathLock(t) ==
    /\ pc[t] = "encPathLock"
    /\ IF mutex[t] = 0
       THEN /\ made' = [made EXCEPT ![dest[t]] = made[dest[t]] + 1]
            /\ mutex' = [mutex EXCEPT ![t] = made[dest[t]] + 1]
            /\ encoding' = MapPut(encoding, dest[t], t)
       ELSE /\ MutexCanLock(encoding[dest[t]])
            /\ encoding' = [encoding EXCEPT ![dest[t]] = t]
            /\ UNCHANGED <<made, mutex>>
    /\ IF StatExists(dest[t])
       THEN /\ pc' = [pc EXCEPT ![t] = "encReturn"]
            /\ UNCHANGED toolRuns
       ELSE /\ pc' = [pc EXCEPT ![t] = "tool"]
            /\ toolRuns' = [toolRuns EXCEPT ![t] = toolRuns[t] + 1]
    /\ UNCHANGED <<runVars, fsVars, streams, indexVars, rwVars, encMutex, reloadVars, req, dest,
                   toolErr, resp, nreq, startVer, sawAbsent, ghostVars>>

\* The running tool creates dest and writes part of the output.
ToolWrite(t) ==
    /\ pc[t] = "tool"
    /\ streams[dest[t]] # "partial"
    /\ streams' = [streams EXCEPT ![dest[t]] = "partial"]
    /\ UNCHANGED <<runVars, fsVars, indexVars, rwVars, encVars, pc, reloadVars, reqVars, ghostVars>>

\* The tool exits 0, the output complete.
ToolExitOK(t) ==
    /\ pc[t] = "tool"
    /\ streams' = [streams EXCEPT ![dest[t]] = "complete"]
    /\ lastFailed' = lastFailed \ {dest[t]}
    /\ pc' = [pc EXCEPT ![t] = "encReturn"]
    /\ UNCHANGED <<runVars, fsVars, indexVars, rwVars, encVars, reloadVars, reqVars, published, pubClock, pubVer>>

\* What is at dest after Encode has handled the tool's failure.
LeftAfterFailedRunKept(d) == streams[d]

LeftAfterFailedRun(d) == IF StatExists(d) THEN "absent" ELSE streams[d]

\* Encode running the tool a second time when the first run has failed.
RunsAgainOnce(t) == toolRuns[t] < 2

\* Whether Encode runs the tool again after a run that failed: Run is called
\* once, outside any loop.
RunsAgain(t) == FALSE

\* The tool exits non-zero, leaving whatever it had written; Encode stats dest
\* and removes the file if there is one.
ToolExitFail(t) ==
    /\ pc[t] = "tool"
    /\ toolErr' = [toolErr EXCEPT ![t] = TRUE]
    /\ lastFailed' = lastFailed \cup {dest[t]}
    /\ streams' = [streams EXCEPT ![dest[t]] = LeftAfterFailedRun(dest[t])]
    /\ pc' = [pc EXCEPT ![t] = IF RunsAgain(t) THEN "tool" ELSE "encReturn"]
    /\ toolRuns' = [toolRuns EXCEPT ![t] = IF RunsAgain(t) THEN toolRuns[t] + 1 ELSE toolRuns[t]]
    /\ UNCHANGED <<runVars, fsVars, indexVars, rwVars, encVars, reloadVars, req, dest,
                   resp, nreq, startVer, sawAbsent, published, pubClock, pubVer>>

\* Whether Encode returns a non-nil error: its last statement is return nil,
\* also after a failed run.
EncodeReturnsError(t) == FALSE

\* Encode returns: the deferred Unlocks run, dest's mutex first. getStream
\* answers 500 on an error and goes on to serve the file otherwise.
EncodeReturn(t) ==
    /\ pc[t] = "encReturn"
    /\ encoding' = [encoding EXCEPT ![dest[t]] = Unlock(@, t)]
    /\ encMutex' = Unlock(encMutex, t)
    /\ mutex' = [mutex EXCEPT ![t] = 0]
    /\ UNCHANGED made
    /\ IF EncodeReturnsError(t)
       THEN /\ resp' = [resp EXCEPT ![t] = [status |-> 500, body |-> Text("error")]]
            /\ rwReaders' = rwReaders \ {t}
            /\ pc' = [pc EXCEPT ![t] = "done"]
       ELSE /\ pc' = [pc EXCEPT ![t] = "serve"]
            /\ UNCHANGED <<runVars, resp, rwReaders>>
    /\ UNCHANGED <<runVars, fsVars, streams, indexVars, rwWriter, reloadVars, req, dest,
                   toolErr, toolRuns, nreq, startVer, sawAbsent, ghostVars>>

\* http.ServeFile opens the file at the artifact path: its content is the
\* body, and a missing file is answered 404. getStream returns (RUnlock).
ServeFile(t) ==
    /\ pc[t] = "serve"
    /\ resp' = [resp EXCEPT ![t] =
                 IF streams[dest[t]] = "absent"
                 THEN [status |-> 404, body |-> Text("error")]
                 ELSE [status |-> 200, body |-> Text(streams[dest[t]])]]
    /\ rwReaders' = rwReaders \ {t}
    /\ pc' = [pc EXCEPT ![t] = "done"]
    /\ UNCHANGED <<runVars, fsVars, streams, indexVars, rwWriter, encVars, reloadVars, req, dest,
                   toolErr, toolRuns, nreq, startVer, sawAbsent, ghostVars>>

\* ----------------------------------------------------------- tags and ids
\* A call of tags.val returns.
TagsVal ==
    /\ call.fn = "val"
    /\ ~ret.returned
    /\ ret' = [returned |-> TRUE, val |-> tagsVal(call.t, call.key).val,
                ok |-> tagsVal(call.t, call.key).ok]
    /\ UNCHANGED <<files, clock, lookPath, call, runVars, streams, indexVars, rwVars, encVars,
                   pc, reloadVars, reqVars, ghostVars>>

\* A call of valInt returns.
ValInt ==
    /\ call.fn = "valInt"
    /\ ~ret.returned
    /\ ret' = [returned |-> TRUE, val |-> valInt(call.valString)]
    /\ UNCHANGED <<files, clock, lookPath, call, runVars, streams, indexVars, rwVars, encVars,
                   pc, reloadVars, reqVars, ghostVars>>

\* newSong computes the disc number from the decoded probe output.
NewSongDisc ==
    /\ call.fn = "newSongDisc"
    /\ ~ret.returned
    /\ ret' = [returned |-> TRUE, val |-> discNumber(call.t)]
    /\ UNCHANGED <<files, clock, lookPath, call, runVars, streams, indexVars, rwVars, encVars,
                   pc, reloadVars, reqVars, ghostVars>>

\* One round of genID's loop appending byte b.
GenIDAppend(b) ==
    /\ call.fn = "genID"
    /\ ~ret.returned
    /\ Len(ret.idBytes) < call.length
    /\ ret' = [ret EXCEPT !.idBytes = Append(@, b)]
    /\ UNCHANGED <<files, clock, lookPath, call, runVars, streams, indexVars, rwVars, encVars,
                   pc, reloadVars, reqVars, ghostVars>>

\* One round of genID's loop: rand.Int below idGreatestByte - idLeastByte,
\* plus idLeastByte, is appended.
GenIDRound(b) ==
    /\ \E n \in RandInt(idGreatestByte - idLeastByte) : b = n + idLeastByte
    /\ GenIDAppend(b)

\* genID's loop is over: the bytes are returned as a string.
GenIDReturn ==
    /\ call.fn = "genID"
    /\ ~ret.returned
    /\ Len(ret.idBytes) >= call.length
    /\ ret' = [ret EXCEPT !.returned = TRUE]
    /\ UNCHANGED <<files, clock, lookPath, call, runVars, streams, indexVars, rwVars, encVars,
                   pc, reloadVars, reqVars, ghostVars>>

\* The process has not started and the library directory is empty.
InitIdle ==
    /\ InitMemory /\ files = [p \in Paths |-> NoFile]
    /\ db = NoSnapshot /\ streams = NoArtifacts /\ lookPath = Tools

\* The lookups of tags and the conversion of tag strings, each on every
\* input of the bounded sets.
InitTags ==
    /\ InitIdle
    /\ call \in {[fn |-> "val", t |-> t, key |-> k] : t \in ProbeOutputs, k \in {KeyDisc, KeyDiscNumber}}
               \cup {[fn |-> "newSongDisc", t |-> t] : t \in ProbeOutputs}
               \cup {[fn |-> "valInt", valString |-> v] : v \in ValStrings}
    /\ ret = NoRet

NextTags == TagsVal \/ ValInt \/ NewSongDisc

SpecTags == InitTags /\ [][NextTags]_vars

\* genID called with every length up to MaxIDLength.
InitGenID ==
    /\ InitIdle
    /\ call \in {[fn |-> "genID", length |-> n] : n \in 0..MaxIDLength}
    /\ ret = [returned |-> FALSE, idBytes |-> <<>>]

NextGenID == (\E b \in 0..255 : GenIDRound(b)) \/ GenIDReturn

SpecGenID == InitGenID /\ [][NextGenID]_vars

\* ------------------------------------------------------------ specification
Next ==
    \/ NewLibrary
    \/ \E t \in Procs : ReloadVisit(t) \/ ReloadPanic(t) \/ ReloadFinish(t)
    \/ \E p \in Paths, c \in Contents : clock < MaxFsOps /\ WriteFile(p, c)
    \/ \E p \in Paths : clock < MaxFsOps /\ RemoveFile(p)
    \/ \E t \in Handlers, r \in Requests : nreq < MaxRequests /\ ServeHTTP(t, r)
    \/ \E t \in Handlers : PutSongsLock(t)
    \/ \E t \in Handlers : GetSongsRLock(t) \/ GetSongsWrite(t)
    \/ \E t \in Handlers : GetStreamRLock(t) \/ GetStreamLookup(t)
    \/ \E t \in Handlers : EncodeLock(t) \/ EncodePathLock(t)
    \/ \E t \in Handlers : ToolWrite(t) \/ ToolExitOK(t) \/ ToolExitFail(t)
    \/ \E t \in Handlers : EncodeReturn(t) \/ ServeFile(t)
    \/ \E t \in Handlers : Return(t)

Spec == Init /\ [][Next]_vars

\* The transcode cache alone: the library is loaded at startup, is not changed
\* or reloaded afterwards, and every request is a stream request.
NextEncode ==
    \/ NewLibrary
    \/ ReloadVisit(Main) \/ ReloadFinish(Main)
    \/ \E t \in Handlers, r \in StreamRequests : nreq < MaxStreams /\ ServeHTTP(t, r)
    \/ \E t \in Handlers : GetStreamRLock(t) \/ GetStreamLookup(t)
    \/ \E t \in Handlers : EncodeLock(t) \/ EncodePathLock(t)
    \/ \E t \in Handlers : ToolWrite(t) \/ ToolExitOK(t) \/ ToolExitFail(t)
    \/ \E t \in Handlers : EncodeReturn(t) \/ ServeFile(t)
    \/ \E t \in Handlers : Return(t)

SpecEncode == Init /\ [][NextEncode]_vars

\* No request is being served.
NoRequest == \A t \in Handlers : pc[t] = "idle"

\* No request is being served and no reload is running.
Quiet == NoRequest /\ pc[Main] \in {"boot", "listen"}

\* The requests that read or reload the index or encode an artifact.
ReloadRequests == {r \in Requests : r.kind = "stream" => r.ext \in Exts}

\* The requests that read or reload the index alone.
IndexRequests == {r \in Requests : r.kind # "stream"}

\* The index under requests that come one at a time, the library directory
\* changing between them.
NextReload ==
    \/ NewLibrary
    \/ \E t \in Procs : ReloadVisit(t) \/ ReloadPanic(t) \/ ReloadFinish(t)
    \/ \E p \in Paths, c \in Contents : clock < MaxFsOps /\ Quiet /\ WriteFile(p, c)
    \/ \E p \in Paths : clock < MaxFsOps /\ Quiet /\ RemoveFile(p)
    \/ \E t \in Handlers, r \in ReloadRequests :
          nreq < MaxSeqRequests /\ NoRequest /\ ServeHTTP(t, r)
    \/ \E t \in Handlers : PutSongsLock(t)
    \/ \E t \in Handlers : GetSongsRLock(t) \/ GetSongsWrite(t)
    \/ \E t \in Handlers : GetStreamRLock(t) \/ GetStreamLookup(t)
    \/ \E t \in Handlers : EncodeLock(t) \/ EncodePathLock(t)
    \/ \E t \in Handlers : ToolWrite(t) \/ ToolExitOK(t) \/ ToolExitFail(t)
    \/ \E t \in Handlers : EncodeReturn(t) \/ ServeFile(t)
    \/ \E t \in Handlers : Return(t)

SpecReload == Init /\ [][NextReload]_vars

\* The index over the runs of a process that is stopped and started again,
\* whose first run may find a snapshot file; the requests, one at a time,
\* list and reload.
NextRestart ==
    \/ NewLibrary
    \/ \E t \in Procs : ReloadVisit(t) \/ ReloadPanic(t) \/ ReloadFinish(t)
    \/ \E p \in Paths, c \in Contents : clock < MaxFsOps /\ Quiet /\ WriteFile(p, c)
    \/ \E p \in Paths : clock < MaxFsOps /\ Quiet /\ RemoveFile(p)
    \/ \E t \in Handlers, r \in IndexRequests :
          nreq < MaxRunRequests /\ NoRequest /\ ServeHTTP(t, r)
    \/ \E t \in Handlers : PutSongsLock(t)
    \/ \E t \in Handlers : GetSongsRLock(t) \/ GetSongsWrite(t)
    \/ \E t \in Handlers : Return(t)
    \/ restarts < MaxRestarts /\ Restart

SpecRestart == InitSnapshot /\ [][NextRestart]_vars

\* The index alone: the requests, one at a time, list and reload, the
\* library directory changing between them.
NextIndex ==
    \/ NewLibrary
    \/ \E t \in Procs : ReloadVisit(t) \/ ReloadPanic(t) \/ ReloadFinish(t)
    \/ \E p \in Paths, c \in Contents : clock < MaxIndexFsOps /\ Quiet /\ WriteFile(p, c)
    \/ \E p \in Paths : clock < MaxIndexFsOps /\ Quiet /\ RemoveFile(p)
    \/ \E t \in Handlers, r \in IndexRequests :
          nreq < MaxIndexRequests /\ NoRequest /\ ServeHTTP(t, r)
    \/ \E t \in Handlers : PutSongsLock(t)
    \/ \E t \in Handlers : GetSongsRLock(t) \/ GetSongsWrite(t)
    \/ \E t \in Handlers : Return(t)

SpecIndex == Init /\ [][NextIndex]_vars

\* The index when the library directory changes at any time, also while
\* newSong is between its probe and its Stat; the requests, one at a time,
\* list and reload.
NextProbe ==
    \/ NewLibrary
    \/ \E t \in Procs : ReloadVisit(t) \/ ReloadPanic(t) \/ ReloadFinish(t)
    \/ \E t \in Procs : NewSongProbe(t) \/ NewSongStat(t)
    \/ \E p \in Paths, c \in Contents : clock < MaxProbeFsOps /\ WriteFile(p, c)
    \/ \E t \in Handlers, r \in IndexRequests :
          nreq < MaxProbeRequests /\ NoRequest /\ ServeHTTP(t, r)
    \/ \E t \in Handlers : PutSongsLock(t)
    \/ \E t \in Handlers : GetSongsRLock(t) \/ GetSongsWrite(t)
    \/ \E t \in Handlers : Return(t)

SpecProbe == Init /\ [][NextProbe]_vars

\* Requests with and without credentials, one at a time, on a library that
\* is loaded at startup and not changed afterwards.
NextAuth ==
    \/ NewLibrary
    \/ \E t \in Procs : ReloadVisit(t) \/ ReloadFinish(t)
    \/ \E t \in Handlers, r \in ReloadRequests \cup AnonymousRequests :
          nreq < MaxAuthRequests /\ NoRequest /\ ServeHTTP(t, r)
    \/ \E t \in Handlers : PutSongsLock(t)
    \/ \E t \in Handlers : GetSongsRLock(t) \/ GetSongsWrite(t)
    \/ \E t \in Handlers : GetStreamRLock(t) \/ GetStreamLookup(t)
    \/ \E t \in Handlers : EncodeLock(t) \/ EncodePathLock(t)
    \/ \E t \in Handlers : ToolWrite(t) \/ ToolExitOK(t) \/ ToolExitFail(t)
    \/ \E t \in Handlers : EncodeReturn(t) \/ ServeFile(t)
    \/ \E t \in Handlers : Return(t)

SpecAuth == Init /\ [][NextAuth]_vars

\* The index alone, where the outside world also replaces files by
\* directories.
NextDir ==
    \/ NewLibrary
    \/ \E t \in Procs : ReloadVisit(t) \/ ReloadPanic(t) \/ ReloadFinish(t)
    \/ \E p \in Paths, c \in Contents : clock < MaxDirFsOps /\ Quiet /\ WriteFile(p, c)
    \/ \E p \in Paths : clock < MaxDirFsOps /\ Quiet /\ RemoveFile(p)
    \/ \E p \in Paths : clock < MaxDirFsOps /\ Quiet /\ ReplaceByDir(p)
    \/ \E t \in Handlers, r \in IndexRequests :
          nreq < MaxDirRequests /\ NoRequest /\ ServeHTTP(t, r)
    \/ \E t \in Handlers : PutSongsLock(t)
    \/ \E t \in Handlers : GetSongsRLock(t) \/ GetSongsWrite(t)
    \/ \E t \in Handlers : Return(t)

SpecDir == Init /\ [][NextDir]_vars

\* The transcode cache over the runs of a process that is stopped, at any
\* point, and started again, whose first run may find a snapshot file; the
\* requests, one at a time, are stream requests.
NextCrash ==
    \/ NewLibrary
    \/ ReloadVisit(Main) \/ ReloadFinish(Main)
    \/ \E t \in Handlers, r \in StreamRequests :
          nreq < MaxCrashRequests /\ NoRequest /\ HasAfmt(r.ext) /\ ServeHTTP(t, r)
    \/ \E t \in Handlers : GetStreamRLock(t) \/ GetStreamLookup(t)
    \/ \E t \in Handlers : EncodeLock(t) \/ EncodePathLock(t)
    \/ \E t \in Handlers : ToolWrite(t) \/ ToolExitOK(t) \/ ToolExitFail(t)
    \/ \E t \in Handlers : EncodeReturn(t) \/ ServeFile(t)
    \/ \E t \in Handlers : Return(t)
    \/ restarts < MaxRestarts /\ Restart

SpecCrash == InitSnapshot /\ [][NextCrash]_vars

\* Listing, reload and stream requests, the streams in one format.
LiveRequests == {r \in Requests : r.kind = "stream" => r.ext = ".opus"}

\* A step of the goroutine of a request, the arrival of the request left out.
HandlerStep(t) ==
    \/ PutSongsLock(t) \/ ReloadVisit(t) \/ ReloadPanic(t) \/ ReloadFinish(t)
    \/ GetSongsRLock(t) \/ GetSongsWrite(t)
    \/ GetStreamRLock(t) \/ GetStreamLookup(t)
    \/ EncodeLock(t) \/ EncodePathLock(t)
    \/ ToolWrite(t) \/ ToolExitOK(t) \/ ToolExitFail(t)
    \/ EncodeReturn(t) \/ ServeFile(t)
    \/ Return(t)

\* Listing, reload and stream requests served concurrently, the library
\* directory changing while no request is served.
NextLive ==
    \/ NewLibrary
    \/ ReloadVisit(Main) \/ ReloadPanic(Main) \/ ReloadFinish(Main)
    \/ \E p \in Paths, c \in Contents : clock < MaxLiveFsOps /\ Quiet /\ WriteFile(p, c)
    \/ \E t \in Handlers, r \in LiveRequests : nreq < MaxLiveRequests /\ ServeHTTP(t, r)
    \/ \E t \in Handlers : HandlerStep(t)

\* The scheduler runs every goroutine that can take a step, every
\* subprocess exits and every response write completes; each step of a
\* request moves its goroutine, its walk or the subprocess's output on.
SpecLive ==
    Init /\ [][NextLive]_vars
         /\ \A t \in Handlers : WF_<<pc, walk, streams>>(HandlerStep(t))

\* The same on a machine on which any of the tools may be missing.
SpecStartup == InitTools /\ [][NextAuth]_vars

\* ------------------------------------------------------------------- claims
\* The index as a reader sees it.
Index == <<SongsByPath, SongsByID, sorted>>

\* A goroutine inside getStream's or getSongs' read-locked section.
InGetStream(t) == pc[t] \in {"lookup", "encLock", "encPathLock", "tool", "encReturn", "serve"}
Reading(t) == InGetStream(t) \/ pc[t] = "listing"

\* C1: at no time are two invocations of the transcoding tool in progress for
\* the same artifact path.
C1_OneEncodePerArtifact ==
    \A t, u \in Handlers :
        (t # u /\ pc[t] = "tool" /\ pc[u] = "tool") => dest[t] # dest[u]

\* C1's case: the tool runs for an artifact while a second request for the
\* same artifact waits in Encode.
C1_Witness ==
    \E t, u \in Handlers :
        t # u /\ pc[t] = "tool" /\ pc[u] = "encLock" /\ dest[u] = dest[t]

\* C2: two stream requests for the same artifact that are alive together, both
\* of which entered getStream with no finished artifact on disk, and in neither
\* of which the tool failed, have invoked the tool exactly once between them,
\* and the file each serves is that one complete artifact.
C2_ConcurrentRequestsEncodeOnce ==
    \A t, u \in Handlers :
        ( /\ t # u
          /\ pc[t] \in {"serve", "done"} /\ pc[u] \in {"serve", "done"}
          /\ dest[t] # <<>> /\ dest[t] = dest[u]
          /\ ~toolErr[t] /\ ~toolErr[u]
          /\ sawAbsent[t] /\ sawAbsent[u] )
        => /\ toolRuns[t] + toolRuns[u] = 1
           /\ streams[dest[t]] = "complete"
           /\ pc[t] = "done" => resp[t] = [status |-> 200, body |-> Text("complete")]

\* C2's case: both requests found no artifact, one has run the tool, the other
\* has not, and both are about to serve the file.
C2_Witness ==
    \E t, u \in Handlers :
        /\ t # u /\ pc[t] = "serve" /\ pc[u] = "serve" /\ dest[t] = dest[u]
        /\ sawAbsent[t] /\ sawAbsent[u] /\ ~toolErr[t] /\ ~toolErr[u]
        /\ toolRuns[t] = 1 /\ toolRuns[u] = 0

\* C3: whenever a stream request is about to open the artifact file to serve
\* it, the file is absent or complete and no tool invocation is writing it.
C3_NoPartialArtifactServed ==
    \A t \in Handlers :
        pc[t] = "serve" =>
            /\ streams[dest[t]] \in {"absent", "complete"}
            /\ \A u \in Handlers \ {t} : ~(pc[u] = "tool" /\ dest[u] = dest[t])

\* C4: when Encode returns after the tool exited non-zero no file is at the
\* artifact path, and a request that finds a file at the artifact path and so
\* does not invoke the tool never finds the leftover of a failed run.
C4_FailedEncodeLeavesNoFile ==
    \A t \in Handlers :
        /\ (pc[t] = "encReturn" /\ toolErr[t]) => streams[dest[t]] = "absent"
        /\ (pc[t] = "encReturn" /\ toolRuns[t] = 0) => dest[t] \notin lastFailed

\* C4's case: after a run that wrote part of the output and failed, a later
\* request has invoked the tool again for the same artifact.
C4_Witness ==
    \E t \in Handlers :
        pc[t] = "tool" /\ ~toolErr[t] /\ dest[t] \in lastFailed

\* C5: a stream request in which the tool exited non-zero does not go on to
\* serve the file and ends with status 500.
C5_FailedEncodeAnswers500 ==
    \A t \in Handlers :
        toolErr[t] => /\ pc[t] # "serve"
                      /\ pc[t] = "done" => resp[t].status = 500

\* C6: a stream request waiting to enter Encode for one artifact path is not
\* kept waiting by a tool invocation that is running for another path.
C6_NoBlockingAcrossArtifacts ==
    \A t, u \in Handlers :
        (t # u /\ pc[u] = "tool" /\ pc[t] = "encLock" /\ dest[t] # dest[u])
        => MutexCanLock(encMutex)

C8_ReadsSeeCompletedReload ==
    [][\A t \in Handlers :
          (pc[t] \in {"listing", "lookup"} /\ pc'[t] # pc[t])
          => (Index = published /\ pubVer >= startVer[t])]_vars

\* C8's case: a read request that started after a reload request had
\* completed is about to read.
C8_Witness ==
    \E t \in Handlers :
        pc[t] \in {"listing", "lookup"} /\ req[t].kind # "put" /\ startVer[t] >= 2

\* C9: whenever no reload is running, no two indexed paths have the same id
\* and SongsByID maps the id of every indexed Song to that Song.
C9_IdsUnique ==
    (pc[Main] = "listen" /\ \A t \in Handlers : pc[t] # "walk") =>
        /\ \A p, q \in DOMAIN SongsByPath :
              p # q => SongsByPath[p].ID # SongsByPath[q].ID
        /\ Cardinality(DOMAIN SongsByID) = Cardinality(DOMAIN SongsByPath)
        /\ \A p \in DOMAIN SongsByPath :
              /\ SongsByPath[p].ID \in DOMAIN SongsByID
              /\ SongsByID[SongsByPath[p].ID] = SongsByPath[p]

\* C10: a reload that ends with the directory unchanged since the previous
\* reload began leaves the index (both mappings, so every id, and the sorted
\* listing) equal to what the previous reload left.
C10_ReloadTwiceSameIndex ==
    [][\A t \in Handlers :
          (pc[t] = "walk" /\ pc'[t] = "getSongs" /\ pubClock = clock')
          => <<SongsByPath', SongsByID', sorted'>> = published]_vars

\* The part of C10 about the mappings alone.
ReloadTwiceSameMappings ==
    [][\A t \in Handlers :
          (pc[t] = "walk" /\ pc'[t] = "getSongs" /\ pubClock = clock')
          => <<SongsByPath', SongsByID'>> = <<published[1], published[2]>>]_vars

\* A reload's last step: the walk is over and reload returns.
Finishing(t) == pc[t] = "walk" /\ walk[t] = <<>> /\ pc'[t] \in {"listen", "getSongs"}

\* C11: when a reload completes, every path that was indexed when it began
\* and whose file now has a later modification time and a probe output that
\* newSong accepts has a Track with the id it had, the tags now probed and the
\* new modification time, and no artifact of that id is left in any format.
C11_ModifiedFileKeepsId ==
    [][\A t \in Procs :
          Finishing(t) =>
            \A p \in DOMAIN published[1] :
               ( /\ files[p].exists
                 /\ files[p].mtime > published[1][p].Time
                 /\ ProbeOK(files[p].content) )
               => /\ p \in DOMAIN SongsByPath'
                  /\ SongsByPath'[p] = SongOf(p, published[1][p].ID, files[p])
                  /\ \A e \in Exts : streams'[<<published[1][p].ID, e>>] = "absent"]_vars

\* C11's case: a reload request is about to visit an indexed path whose file
\* was modified and probes well, while an artifact of its id is on disk.
C11_Witness ==
    \E t \in Handlers :
        /\ pc[t] = "walk" /\ walk[t] # <<>>
        /\ Head(walk[t]) \in DOMAIN SongsByPath
        /\ NeedsProbe(Head(walk[t]))
        /\ ProbeOK(files[Head(walk[t])].content)
        /\ files[Head(walk[t])].content # InitialContent
        /\ \E e \in Exts : streams[<<SongsByPath[Head(walk[t])].ID, e>>] = "complete"

\* C12: when a reload completes, every path that was indexed when it began
\* and whose file no longer exists is not in SongsByPath, its id is neither in
\* SongsByID nor the id of an element of the sorted listing, and no artifact
\* of that id is left in any format.
C12_RemovedFileLeavesIndex ==
    [][\A t \in Procs :
          Finishing(t) =>
            \A p \in DOMAIN published[1] :
               ~files[p].exists
               => /\ p \notin DOMAIN SongsByPath'
                  /\ published[1][p].ID \notin DOMAIN SongsByID'
                  /\ \A i \in DOMAIN sorted' : sorted'[i].ID # published[1][p].ID
                  /\ \A e \in Exts : streams'[<<published[1][p].ID, e>>] = "absent"]_vars

\* The part of C12 that does not depend on ids being unique.
RemovedFileLeavesMappings ==
    [][\A t \in Procs :
          Finishing(t) =>
            \A p \in DOMAIN published[1] :
               ~files[p].exists
               => /\ p \notin DOMAIN SongsByPath'
                  /\ published[1][p].ID \notin DOMAIN SongsByID'
                  /\ \A i \in DOMAIN sorted' : sorted'[i].Path # p
                  /\ \A e \in Exts : streams'[<<published[1][p].ID, e>>] = "absent"]_vars

\* C13: whenever the server listens and no reload is running, the sorted
\* listing holds exactly the Songs that are the values of SongsByPath, each
\* once.
C13_SortedIsTheMapping ==
    (pc[Main] = "listen" /\ \A t \in Handlers : pc[t] # "walk") =>
        /\ Len(sorted) = Cardinality(DOMAIN SongsByPath)
        /\ {sorted[i] : i \in DOMAIN sorted} = Range(SongsByPath)

\* C14: when the process starts again after a reload has completed, startup
\* succeeds with the mappings that reload handed to marshal, and the startup
\* reload leaves the Track of every path whose file has not changed since as
\* that reload had it (the same id, and not probed again).
C14_RestartRecoversIds ==
    [][/\ (pc[Main] = "boot" /\ pc'[Main] # "boot" /\ written # <<>>)
          => /\ pc'[Main] = "walk"
             /\ SongsByPath' = written[1]
             /\ SongsByID' = written[2]
       /\ (Finishing(Main) /\ restarts > 0 /\ written # <<>>)
          => \A p \in DOMAIN written[1] :
                (files[p].exists /\ files[p].mtime <= written[1][p].Time)
                => (p \in DOMAIN SongsByPath' /\ SongsByPath'[p] = written[1][p])]_vars

\* C15: when NewLibrary has decoded a snapshot whose Path is not the library
\* flag, it starts the reload with both mappings empty; and no Track of the
\* other directory's snapshot is ever in SongsByPath, SongsByID or the sorted
\* listing.
C15_RootMismatchDiscardsSnapshot ==
    [][/\ (pc[Main] = "boot" /\ pc'[Main] = "walk" /\ db.state = "json" /\ db.Path # Root)
          => (SongsByPath' = EmptyMap /\ SongsByID' = EmptyMap /\ sorted' = <<>>)
       /\ \A s \in Range(SongsByPath') \cup Range(SongsByID') \cup Range(sorted') :
             s # OtherRootSong]_vars

\* C15's case: the first run found the snapshot of the other directory, and
\* its startup reload has indexed the path that snapshot also holds.
C15_Witness ==
    /\ restarts = 0 /\ pc[Main] = "walk"
    /\ db.state = "json" /\ db.Path = OtherRoot
    /\ DOMAIN db.SongsByPath \subseteq DOMAIN SongsByPath

\* C16: when a reload completes, no path whose probe failed in that reload is
\* in SongsByPath.
C16_FailedProbeNotIndexed ==
    [][\A t \in Procs :
          Finishing(t) => \A p \in probeFailed : p \notin DOMAIN SongsByPath']_vars

\* C17: a reload ends only by completing: the walk has visited every path,
\* the sorted listing is rebuilt from SongsByPath and marshal has been called
\* (a file is at marshalPath).
C17_ProbeFailureNeverAborts ==
    [][\A t \in Procs :
          (pc[t] = "walk" /\ pc'[t] # "walk" /\ restarts' = restarts)
          => /\ walk[t] = <<>>
             /\ sorted' \in SortResults(Range(SongsByPath'))
             /\ db'.state # "absent"]_vars

\* C18: when the walk probes a file whose probe output has a numeric score,
\* a score below 25 leaves both mappings as they were, audio stream or not,
\* and a score of 25 or more with an audio stream puts the Track built from
\* that output into both mappings.
C18_ScoreThreshold ==
    [][\A t \in Procs :
          ( /\ pc[t] = "walk" /\ walk[t] # <<>>
            /\ pc'[t] = "walk" /\ walk'[t] = Tail(walk[t])
            /\ NeedsProbe(Head(walk[t]))
            /\ files[Head(walk[t])].content.exit = 0
            /\ files[Head(walk[t])].content.score \in Nat )
          => LET p == Head(walk[t])
                 f == files[p]
             IN  /\ f.content.score < 25
                      => (SongsByPath' = SongsByPath /\ SongsByID' = SongsByID)
                 /\ (f.content.score >= 25 /\ f.content.audio)
                      => /\ p \in DOMAIN SongsByPath'
                         /\ SongsByPath'[p] = SongOf(p, SongsByPath'[p].ID, f)
                         /\ SongsByPath'[p].ID \in DOMAIN SongsByID'
                         /\ SongsByID'[SongsByPath'[p].ID] = SongsByPath'[p]]_vars

\* C18's case: the walk is about to probe a file whose probe output has an
\* audio stream and a score just below the threshold.
C18_Witness ==
    \E t \in Procs :
        /\ pc[t] = "walk" /\ walk[t] # <<>>
        /\ NeedsProbe(Head(walk[t]))
        /\ files[Head(walk[t])].content.exit = 0
        /\ files[Head(walk[t])].content.score = 24
        /\ files[Head(walk[t])].content.audio

\* The order C19 states: as ByTags.Less, the last key being the path itself.
TagsThenPathLess(a, b) ==
    IF ~compareFold(a.Artist, b.Artist).eq THEN compareFold(a.Artist, b.Artist).less
    ELSE IF ~compareFold(a.Album, b.Album).eq THEN compareFold(a.Album, b.Album).less
    ELSE IF a.Disc # b.Disc THEN a.Disc < b.Disc
    ELSE IF a.Track # b.Track THEN a.Track < b.Track
    ELSE IF ~compareFold(a.Title, b.Title).eq THEN compareFold(a.Title, b.Title).less
    ELSE StrLess(a.Path, b.Path)

\* C19: in the sorted listing no element comes before one that is smaller by
\* artist, album (both case-folded), disc number, track number, title
\* (case-folded) and then path.
C19_SortedByTagsThenPath ==
    \A i, j \in DOMAIN sorted :
        i < j => ~TagsThenPathLess(sorted[j], sorted[i])

\* The part of C19 before the path: no element comes before one that
\* ByTags.Less puts first.
SortedByLess ==
    \A i, j \in DOMAIN sorted : i < j => ~Less(sorted[j], sorted[i])

\* C20: when a file is at the artifact path as Encode stats it, Encode
\* returns without a tool run and without a change to any artifact; and from
\* there until the request has answered, the file stays as it is and the
\* answer is 200 with that file.
C20_ExistingArtifactServed ==
    [][\A t \in Handlers :
          /\ ( /\ pc[t] = "encPathLock" /\ pc'[t] # "encPathLock"
                /\ streams[dest[t]] # "absent" )
             => /\ pc'[t] = "encReturn"
                /\ toolRuns'[t] = toolRuns[t]
                /\ streams' = streams
          /\ (pc[t] \in {"encReturn", "serve"} /\ toolRuns[t] = 0)
             => /\ streams'[dest[t]] = streams[dest[t]]
                /\ streams[dest[t]] # "absent"
                /\ pc'[t] = "done"
                     => resp'[t] = [status |-> 200, body |-> Text(streams[dest[t]])]]_vars

\* C20's case: a request that found the finished artifact and ran no tool is
\* about to serve it.
C20_Witness ==
    \E t \in Handlers :
        pc[t] = "serve" /\ toolRuns[t] = 0 /\ streams[dest[t]] = "complete"

\* C21: a stream request for a Track whose source file already is of the
\* requested format (its format_name is the Fmt of the extension) runs no
\* transcoding tool and has no artifact file and no mutex of Encode's
\* registry at the artifact path of that Track and extension.
C21_MatchingSourceServedDirectly ==
    \A t \in Handlers :
        ( /\ InGetStream(t) /\ dest[t] # <<>>
          /\ files[SongsByID[req[t].id].Path].exists
          /\ files[SongsByID[req[t].id].Path].content.format = AfmtFmt(req[t].ext) )
        => /\ toolRuns[t] = 0
           /\ pc[t] # "tool"
           /\ streams[dest[t]] = "absent"
           /\ dest[t] \notin DOMAIN encoding

\* C22: a request other than OPTIONS that carries no valid credentials, a
\* stream request included, is answered 401 at once: it is never in getSongs,
\* putSongs, getStream, Encode or ServeFile.
C22_Unauthorized401 ==
    \A t \in Handlers :
        (req[t].kind \in {"list", "put", "stream"} /\ ~req[t].auth)
        => (pc[t] = "done" /\ resp[t].status = 401)

\* The part of C22 about the requests for /songs.
UnauthorizedSongs401 ==
    \A t \in Handlers :
        (req[t].kind \in {"list", "put"} /\ ~req[t].auth)
        => (pc[t] = "done" /\ resp[t].status = 401)

\* C23: marshal's write failing in every reload, a reload that completes
\* leaves both mappings and the sorted listing as it built them (the listing
\* an ordering of the values of SongsByPath) and not as they were before or
\* as the snapshot file has them; a reload request is answered with the
\* error status 500; and until that request has answered, the index stays as
\* the reload built it and the listing in the answer is that listing.
C23_SnapshotFailureKeepsIndex ==
    [][\A t \in Procs :
          /\ Finishing(t)
             => /\ SongsByPath' = MapDelete(SongsByPath, {s.Path : s \in Gone})
                /\ SongsByID' = MapDelete(SongsByID, {s.ID : s \in Gone})
                /\ sorted' \in SortResults(Range(SongsByPath'))
                /\ db'.state = "json" => db' = db
                /\ t \in Handlers => resp'[t].status = 500
          /\ ( /\ t \in Handlers /\ pc[t] \in {"getSongs", "listing"}
                /\ req[t].kind = "put" /\ pc'[t] \in {"listing", "done"} )
             => /\ Index' = Index
                /\ Index = published
                /\ pc'[t] = "done" => resp'[t] = [status |-> 500, body |-> Listing(sorted)]]_vars

\* C23's case: a reload request's reload has indexed a file written since
\* the previous reload, the snapshot file holds nothing, and the request is
\* about to answer.
C23_Witness ==
    \E t \in Handlers :
        /\ pc[t] = "listing" /\ req[t].kind = "put"
        /\ db.state = "empty"
        /\ clock > 0 /\ pubClock = clock
        /\ \E p \in DOMAIN SongsByPath : SongsByPath[p].Time = clock

\* C24: when getStream's lookup finds the id of a stream request not to be
\* in SongsByID, or its extension not to be a key of afmts, the request is
\* answered at once with a 4xx status: it has run no tool and has no
\* artifact path, and no artifact file and no mutex of Encode's registry has
\* been created or changed.
C24_LookupMissIsClientError ==
    [][\A t \in Handlers :
          ( /\ pc[t] = "lookup" /\ pc'[t] # "lookup"
            /\ (req[t].id \notin DOMAIN SongsByID \/ req[t].ext \notin Exts) )
          => /\ pc'[t] = "done"
             /\ resp'[t].status \in 400..499
             /\ toolRuns'[t] = 0
             /\ dest'[t] = <<>>
             /\ streams' = streams
             /\ encoding' = encoding]_vars

\* C24's case: a stream request for an indexed id and an extension that is
\* not a supported format is at the lookup.
C24_Witness ==
    \E t \in Handlers :
        pc[t] = "lookup" /\ req[t].id \in DOMAIN SongsByID /\ req[t].ext \notin Exts

\* C24's other case: a stream request for an id that is not in the index
\* and a supported format has been answered.
UnknownIdAnswered ==
    \E t \in Handlers :
        /\ pc[t] = "done" /\ req[t].kind = "stream"
        /\ req[t].id \notin DOMAIN SongsByID /\ req[t].ext \in Exts
        /\ resp[t].status = 404

\* C25: when a reload request with valid credentials ends, it has sent a
\* response whose body is the sorted listing as a reload that completed
\* after the request started left it.
C25_PutAnswersReloadedListing ==
    [][\A t \in Handlers :
          (req[t].kind = "put" /\ req[t].auth /\ pc[t] # "done" /\ pc'[t] = "done")
          => /\ resp'[t].status # 0
             /\ resp'[t].body = Listing(sorted)
             /\ sorted = published[3]
             /\ pubVer > startVer[t]]_vars

\* The part of C25 about the requests whose reload returns: the listing
\* they answer with is the one a reload completed after the request started
\* has left.
PutAnswersAfterCompletedReload ==
    [][\A t \in Handlers :
          (req[t].kind = "put" /\ pc[t] = "listing" /\ pc'[t] = "done")
          => /\ resp'[t].body = Listing(sorted)
             /\ sorted = published[3]
             /\ pubVer > startVer[t]]_vars

\* An indexed path whose file's modification time is not after the Time of
\* its Track.
Unmodified(p) ==
    p \in DOMAIN SongsByPath /\ files[p].exists /\ files[p].mtime <= SongsByPath[p].Time

\* C26: no step of a reload probes an indexed file that is not modified,
\* replaces its Track or deletes an artifact of its id.
C26_UnmodifiedFileUntouched ==
    [][\A t \in Procs :
          (pc[t] = "walk" /\ restarts' = restarts)
          => \A p \in Paths :
                Unmodified(p)
                => /\ p \notin probeFailed'
                   /\ p \in DOMAIN SongsByPath'
                   /\ SongsByPath'[p] = SongsByPath[p]
                   /\ \A e \in Exts :
                         streams'[<<SongsByPath[p].ID, e>>] = streams[<<SongsByPath[p].ID, e>>]]_vars

\* The part of C26 that does not depend on ids being unique: the file is not
\* probed and its Track is not replaced, and its artifacts stay when no other
\* indexed path has its id.
UnmodifiedFileKeepsTrack ==
    [][\A t \in Procs :
          (pc[t] = "walk" /\ restarts' = restarts)
          => \A p \in Paths :
                Unmodified(p)
                => /\ p \notin probeFailed'
                   /\ p \in DOMAIN SongsByPath'
                   /\ SongsByPath'[p] = SongsByPath[p]
                   /\ (\A q \in DOMAIN SongsByPath' \cup DOMAIN SongsByPath :
                          q # p => /\ (q \in DOMAIN SongsByPath => SongsByPath[q].ID # SongsByPath[p].ID)
                                   /\ (q \in DOMAIN SongsByPath' => SongsByPath'[q].ID # SongsByPath[p].ID))
                      => \A e \in Exts :
                            streams'[<<SongsByPath[p].ID, e>>] = streams[<<SongsByPath[p].ID, e>>]]_vars

\* LookPath finds neither name of the probe tool, or neither name of the
\* transcoding tool.
ToolMissing ==
    \/ {"ffprobe", "avprobe"} \cap lookPath = {}
    \/ {"ffmpeg", "avconv"} \cap lookPath = {}

\* C27: on a machine where neither name of the probe tool, or neither name of
\* the transcoding tool, is found, the process is starting or has exited: it
\* never walks the library, listens or has accepted a request.
C27_MissingToolExits ==
    ToolMissing =>
        /\ pc[Main] \in {"boot", "exit"}
        /\ nreq = 0
        /\ \A t \in Handlers : pc[t] = "idle"
        /\ SongsByPath = EmptyMap /\ sorted = <<>>

\* C27's case: the probe tool is found under its fallback name only, no
\* transcoding tool is found, and the process has exited.
C27_Witness ==
    /\ pc[Main] = "exit"
    /\ lookPath = {"avprobe"}
    /\ \E p \in Paths : files[p].exists

\* C28: when a reload completes, the startup reload after a snapshot of
\* another directory was discarded included, every file in the artifact
\* directory has the id of a Track of SongsByPath.
C28_NoOrphanArtifacts ==
    [][\A t \in Procs :
          Finishing(t) =>
            \A d \in Dests :
               streams'[d] # "absent"
               => \E p \in DOMAIN SongsByPath' : SongsByPath'[p].ID = d[1]]_vars

\* C29: when a reload completes, no Track whose file has a modification
\* time after the Track's Time has an artifact in any format, and every
\* artifact in the directory has the id of a Track whose file has not.
C29_NoStaleArtifacts ==
    [][\A t \in Procs :
          Finishing(t) =>
            /\ \A p \in DOMAIN SongsByPath' :
                  (files[p].exists /\ files[p].mtime > SongsByPath'[p].Time)
                  => \A e \in Exts : streams'[<<SongsByPath'[p].ID, e>>] = "absent"
            /\ \A d \in Dests :
                  streams'[d] # "absent"
                  => \E p \in DOMAIN SongsByPath' :
                        /\ SongsByPath'[p].ID = d[1]
                        /\ files[p].exists
                        /\ files[p].mtime <= SongsByPath'[p].Time]_vars

\* The part of C29 about the files newSong accepts: when a reload completes,
\* every Track that has an artifact has a file that is not modified or whose
\* probe failed in this reload.
NoStaleArtifactsOfProbedFiles ==
    [][\A t \in Procs :
          Finishing(t) =>
            \A p \in DOMAIN SongsByPath' :
               (\E e \in Exts : streams'[<<SongsByPath'[p].ID, e>>] # "absent")
               => \/ files[p].mtime <= SongsByPath'[p].Time
                  \/ p \in probeFailed]_vars

\* C30: when a reload completes, every indexed path is a regular file of
\* the directory the walk has gone through, and every path that was indexed
\* when the reload began and is no regular file (nothing is there, or a
\* directory) is in neither mapping, its id resolving to no Track, with no
\* artifact of its id left in any format.
C30_IndexedPathsAreFiles ==
    [][\A t \in Procs :
          Finishing(t) =>
            /\ \A p \in DOMAIN SongsByPath' : files[p].exists /\ ~files[p].dir
            /\ \A p \in DOMAIN published[1] :
                  ~(files[p].exists /\ ~files[p].dir)
                  => /\ p \notin DOMAIN SongsByPath'
                     /\ published[1][p].ID \notin DOMAIN SongsByID'
                     /\ \A e \in Exts : streams'[<<published[1][p].ID, e>>] = "absent"]_vars

\* C31: of any two indexed Tracks with distinct paths exactly one is Less
\* than the other, so that sort.Sort can leave the values of SongsByPath in
\* one order only.
C31_LessDecidesEveryPair ==
    /\ \A p, q \in DOMAIN SongsByPath :
          p # q => (Less(SongsByPath[p], SongsByPath[q]) # Less(SongsByPath[q], SongsByPath[p]))
    /\ Cardinality(SortResults(Range(SongsByPath))) = 1

\* C32: Encode makes at most one mutex for an artifact path, and the mutex
\* a stream request has locked for its path is the one e.encoding holds for
\* that path.
C32_OneMutexPerPath ==
    /\ \A d \in Dests : made[d] <= 1
    /\ \A d \in Dests : (made[d] = 1) = (d \in DOMAIN encoding)
    /\ \A t \in Handlers :
          pc[t] \in {"tool", "encReturn"} => (mutex[t] = 1 /\ made[dest[t]] = 1)

\* C32's case: of two requests that both entered getStream when the path had
\* no artifact and no mutex, one has made the mutex and left Encode and the
\* other has found that mutex in e.encoding.
C32_Witness ==
    \E t, u \in Handlers :
        /\ t # u /\ dest[t] = dest[u]
        /\ sawAbsent[t] /\ sawAbsent[u]
        /\ toolRuns[t] = 1 /\ pc[t] = "serve"
        /\ pc[u] = "encPathLock" /\ mutex[u] = 1
        /\ \A d \in Dests : d # dest[t] => made[d] = 0

\* C33: a stream request runs the transcoding tool at most once, and a
\* request in which the tool has failed is past Encode for good; every tool
\* run in progress belongs to a stream request that has not run the tool
\* before.
C33_OneRunPerRequest ==
    \A t \in Handlers :
        /\ toolRuns[t] <= 1
        /\ toolErr[t] => pc[t] \in {"encReturn", "serve", "done"}
        /\ pc[t] = "tool" => (req[t].kind = "stream" /\ toolRuns[t] = 1 /\ ~toolErr[t])

\* C33's case: the tool has failed in a request, which has left Encode
\* having run it once, and no other request is being served.
C33_Witness ==
    \E t \in Handlers :
        /\ pc[t] = "serve" /\ toolErr[t] /\ toolRuns[t] = 1
        /\ \A u \in Handlers \ {t} : pc[u] = "idle"

\* C34: every request that is being served eventually returns; a state in
\* which a request is being served and no goroutine can take a step would
\* be a behaviour in which that request never returns.
C34_RequestsReturn ==
    \A t \in Handlers : (pc[t] # "idle") ~> (pc[t] = "idle")

\* C34's case: a reload request holds the index lock while a stream
\* request waits for it.
C34_Witness ==
    \E t, u \in Handlers :
        /\ pc[t] = "walk" /\ rwWriter = t
        /\ pc[u] = "getStream" /\ req[u].id \in DOMAIN SongsByID

\* C35: in no step taken while a stream request is between its index lookup
\* and the end of serving the file is a reload executing, before the step or
\* after it, and the artifact of a request that is in Encode or serving is
\* deleted in no such step but by the Encode that holds the artifact's mutex
\* and removes what its own failed run left.
C35_NoReloadDuringStream ==
    [][\A u \in Handlers :
          InGetStream(u)
          => /\ \A t \in Procs : pc[t] # "walk" /\ pc'[t] # "walk"
             /\ (pc[u] # "lookup" /\ streams[dest[u]] # "absent" /\ streams'[dest[u]] = "absent")
                => \E v \in Handlers :
                      /\ dest[v] = dest[u] /\ encoding[dest[u]] = v
                      /\ pc[v] = "tool" /\ toolErr'[v]]_vars

\* C35's case: a reload request waits for the index lock while a stream
\* request runs the tool for an artifact whose file has since been modified,
\* so that the reload will delete the artifact.
C35_Witness ==
    \E t, u \in Handlers :
        /\ pc[t] = "putSongs"
        /\ pc[u] = "tool" /\ streams[dest[u]] = "partial"
        /\ \E p \in DOMAIN SongsByPath :
              SongsByPath[p].ID = dest[u][1] /\ NeedsProbe(p)

\* A stream request answered 200 in a process that was never stopped has
\* served a complete artifact.
ServedCompleteBeforeRestart ==
    \A t \in Handlers :
        (restarts = 0 /\ pc[t] = "done" /\ req[t].kind = "stream" /\ resp[t].status = 200)
        => resp[t].body = Text("complete")

\* C36: a stream request answered 200 after the process was stopped and
\* started again has served a complete artifact, whatever the process was
\* doing when it was stopped.
C36_RestartLeavesCompleteArtifacts ==
    \A t \in Handlers :
        (restarts > 0 /\ pc[t] = "done" /\ req[t].kind = "stream" /\ resp[t].status = 200)
        => resp[t].body = Text("complete")

\* The tags of a Song.
TagsOf(s) == <<s.Artist, s.Album, s.Disc, s.Track, s.Title>>

\* The tags newSong reads from probe output c.
TagsIn(c) == <<c.artist, c.album, c.disc, c.track, c.title>>

\* C37: when a reload during which no file changed completes, every Track
\* whose file has a probe output that newSong accepts carries the tags of
\* the file's content, although the file may have changed during an earlier
\* reload, between newSong's probe and its Stat.
C37_TagsMatchAfterQuietReload ==
    [][\A t \in Procs :
          (Finishing(t) /\ began[t] = clock)
          => \A p \in DOMAIN SongsByPath' :
                (files[p].exists /\ ~files[p].dir /\ ProbeOK(files[p].content))
                => TagsOf(SongsByPath'[p]) = TagsIn(files[p].content)]_vars

\* What a tag string has before its first '/': its longest prefix without one.
BeforeSlash(v) ==
    CHOOSE q \in {SubSeq(v, 1, n) : n \in 0..Len(v)} :
        /\ \A i \in 1..Len(q) : q[i] # 47
        /\ Len(q) = Len(v) \/ v[Len(q) + 1] = 47

\* A string without its sign, if it has one.
Unsigned(q) == IF q # <<>> /\ q[1] \in {43, 45} THEN Tail(q) ELSE q

\* A tag string is numeric: before its first '/' it is an integer in decimal
\* digits, with or without a sign.
Numeric(v) ==
    /\ Unsigned(BeforeSlash(v)) # <<>>
    /\ \A i \in 1..Len(Unsigned(BeforeSlash(v))) : Unsigned(BeforeSlash(v))[i] \in 48..57

\* The integer a numeric tag string has before its first '/'.
IntegerOf(v) ==
    IF BeforeSlash(v)[1] = 45 THEN 0 - DecVal(Unsigned(BeforeSlash(v)))
    ELSE DecVal(Unsigned(BeforeSlash(v)))

\* The values of the disc tags of a probe output, in whatever container and
\* in whatever letter case of the keys "disc" and "discnumber".
DiscTags(t) ==
    UNION {{c.tags[k] : k \in {x \in DOMAIN c.tags : ToLower(x) \in {KeyDisc, KeyDiscNumber}}} :
              c \in {d \in {t.Format} \cup Range(t.Streams) : d.hasTags}}

\* Every tag key of the probe output is all lower case or all upper case.
KeysOneCase(t) ==
    \A c \in {t.Format} \cup Range(t.Streams) :
        c.hasTags => \A k \in DOMAIN c.tags : k = ToLower(k) \/ k = ToUpper(k)

\* valInt gives a numeric tag string its integer and any other string 0.
ValIntOfString ==
    (call.fn = "valInt" /\ ret.returned)
    => ret.val = IF Numeric(call.valString) THEN IntegerOf(call.valString) ELSE 0

\* What C38 says of the disc number of a Track, given the probe output t and
\* the disc number n newSong computed: at least 1 when there are disc tags
\* and each is numeric, less than 1 when there is none or none is numeric.
DiscTellsTag(t, n) ==
    /\ (DiscTags(t) # {} /\ \A v \in DiscTags(t) : Numeric(v)) => n >= 1
    /\ (\A v \in DiscTags(t) : ~Numeric(v)) => n < 1

\* The same of the probe outputs whose keys are of one letter case.
DiscTellsTagWhenKeysOneCase ==
    (call.fn = "newSongDisc" /\ ret.returned /\ KeysOneCase(call.t))
    => DiscTellsTag(call.t, ret.val)

\* C38: valInt gives a numeric tag string the integer before its first '/'
\* and any other string 0, and the disc number newSong computes from tags
\* whose numbers begin at 1 is less than 1 exactly when the tag is missing
\* or not numeric.
C38_NumberTellsMissingTag ==
    /\ ValIntOfString
    /\ (call.fn = "newSongDisc" /\ ret.returned) => DiscTellsTag(call.t, ret.val)

\* What C39 says of tags.val, given the probe output t, the key and the
\* result r: the key is found exactly when a container has a tag whose key
\* is the key in some letter case, and the value is that tag's in the first
\* such container, the format object coming before the streams.
FirstMatch(t, key, r) ==
    LET conts == <<t.Format>> \o t.Streams
        Keys(c) == IF c.hasTags THEN {k \in DOMAIN c.tags : ToLower(k) = ToLower(key)} ELSE {}
        hits == {i \in 1..Len(conts) : Keys(conts[i]) # {}}
        first == CHOOSE i \in hits : \A j \in hits : i <= j
    IN  IF hits = {} THEN ~r.ok
        ELSE r.ok /\ r.val \in {conts[first].tags[k] : k \in Keys(conts[first])}

\* The same of the probe outputs whose keys are of one letter case.
FirstMatchWhenKeysOneCase ==
    (call.fn = "val" /\ ret.returned /\ KeysOneCase(call.t))
    => FirstMatch(call.t, call.key, ret)

\* C39: the value tags.val returns for a key is the first match, searching
\* the format object's tags and then each stream's in order, and the key is
\* found in whatever letter case the probe output has it.
C39_FirstMatchAnyCase ==
    (call.fn = "val" /\ ret.returned) => FirstMatch(call.t, call.key, ret)

\* The string genID returns has the length asked for and only bytes from
\* 'a' to 'z'.
GenIDLengthAndBytes ==
    (call.fn = "genID" /\ ret.returned)
    => /\ Len(ret.idBytes) = call.length
       /\ \A i \in 1..Len(ret.idBytes) : ret.idBytes[i] \in 97..122

\* C40: the string genID returns has the length asked for and only bytes
\* from 'a' to 'z', and at every position each of the 26 letters is a byte
\* genID can put there.
C40_GenIDAnyLetter ==
    /\ GenIDLengthAndBytes
    /\ (call.fn = "genID" /\ ~ret.returned /\ Len(ret.idBytes) < call.length)
       => \A b \in 97..122 : ENABLED GenIDRound(b)
====
